---- MODULE Spec2Model ----
(***************************************************************************)
(* Model of the weighted-statistics scripts of the smoking-prevalence      *)
(* analysis: calculate_prevalence_ci (appendix_table_2_updated.py),        *)
(* calculate_metrics and the reliability flagging of                       *)
(* generate_smoking_prevalence_map_v9.py, the summarize lambda of          *)
(* descriptives_final.py, get_or_category of the choropleth script and the *)
(* table built by appendix_table_2_updated.main.                           *)
(*                                                                         *)
(* Numbers.  The scripts compute in float64.  The model computes in exact  *)
(* rational arithmetic: a number is a record [n, d] in lowest terms with   *)
(* d > 0, and NaN is the record with d = 0.  A quantity that involves a    *)
(* square root (the CI bounds, the RSE) is kept exactly, as a + s*sqrt(q)  *)
(* with rational a, q and s in {-1, 0, 1}.  Rounding error of float64 is   *)
(* therefore outside the model.                                            *)
(***************************************************************************)
EXTENDS Integers, Naturals, Sequences, FiniteSets, TLC

VARIABLES
    group,      \* the rows handed to the estimators: a bag  row -> count
    ci,         \* what calculate_prevalence_ci returned for group, or NotCalled
    metrics,    \* what calculate_metrics returned for group, or NotCalled
    desc,       \* what the summarize lambda returned for group, or NotCalled
    df,         \* descriptives_final: the table handed to create_descriptives
    summary,    \* descriptives_final: what create_descriptives built, or NotCalled
    mapDf,      \* prevalence map: the rows read from the CSV, a bag
    mapPc,      \* prevalence map: how far main has run
    mapMetrics, \* prevalence map: metrics / final_metrics, one record per group key
    orRow,      \* choropleth: the row handed to get_or_category
    category,   \* choropleth: what get_or_category returned, or NotCalled
    tblCsv,     \* appendix table: the CSV file main reads
    tblPc,      \* appendix table: how far main has run
    tblYears,   \* appendix table: df_2018 and df_2024, by year label
    tblProcessed, \* appendix table: processed_years
    tblYearly,  \* appendix table: final_yearly_data
    tblFinal,   \* appendix table: final_table
    tblSaved    \* appendix table: the tables written by to_csv, in order

estVars == <<group, ci, metrics, desc>>
descVars == <<df, summary>>
mapVars == <<mapDf, mapPc, mapMetrics>>
orVars == <<orRow, category>>
tblVars == <<tblCsv, tblPc, tblYears, tblProcessed, tblYearly, tblFinal, tblSaved>>
vars == <<estVars, descVars, mapVars, orVars, tblVars>>

-----------------------------------------------------------------------------
(* Bounds of the model *)

MaxRows == 4        \* rows in a group handed to the estimators
MaxWeight == 2      \* largest _LLCPWT value of an input row
MaxDescRows == 3    \* rows of the table handed to create_descriptives
MidCount == 25      \* prevalence map: a table holds 1, MidCount or BigCount
BigCount == 49      \*   copies of a row
MaxTableRows == 2   \* appendix table: rows of the CSV

-----------------------------------------------------------------------------
(* Exact rational arithmetic standing for float64 *)

Abs(x) == IF x < 0 THEN -x ELSE x

RECURSIVE GCD(_, _)
GCD(a, b) == IF b = 0 THEN a ELSE GCD(b, a % b)

NaN == [n |-> 0, d |-> 0]

IsNaN(x) == x.d = 0

\* n/d in lowest terms, d > 0; x/0 is NaN here (callers that need inf test for it)
Rat(n, d) ==
    IF d = 0 THEN NaN
    ELSE LET g == GCD(Abs(n), Abs(d))
             s == IF d < 0 THEN -1 ELSE 1
         IN  [n |-> (s * n) \div g, d |-> (s * d) \div g]

Zero == Rat(0, 1)
One == Rat(1, 1)

\* the arithmetic divides by common factors first, so that the intermediate
\* products stay small
RatAdd(x, y) ==
    IF IsNaN(x) \/ IsNaN(y) THEN NaN
    ELSE LET g == GCD(x.d, y.d)
         IN  Rat(x.n * (y.d \div g) + y.n * (x.d \div g), (x.d \div g) * y.d)
RatNeg(x) == IF IsNaN(x) THEN NaN ELSE [n |-> -x.n, d |-> x.d]
RatSub(x, y) == RatAdd(x, RatNeg(y))
RatMul(x, y) ==
    IF IsNaN(x) \/ IsNaN(y) THEN NaN
    ELSE LET g1 == GCD(Abs(x.n), y.d)
             g2 == GCD(Abs(y.n), x.d)
         IN  Rat((x.n \div g1) * (y.n \div g2), (x.d \div g2) * (y.d \div g1))
\* x / y; a division by zero (inf or NaN in float64) is NaN here
RatDiv(x, y) ==
    IF IsNaN(x) \/ IsNaN(y) \/ y.n = 0 THEN NaN
    ELSE RatMul(x, IF y.n < 0 THEN [n |-> -y.d, d |-> -y.n] ELSE [n |-> y.d, d |-> y.n])

RECURSIVE CmpFrac(_, _, _, _)
\* the sign of a/b - c/d for b, d > 0, by continued fractions (no products)
CmpFrac(a, b, c, d) ==
    LET qa == a \div b
        qc == c \div d
        ra == a % b
        rc == c % d
    IN  IF qa # qc THEN (IF qa < qc THEN -1 ELSE 1)
        ELSE IF ra = 0 /\ rc = 0 THEN 0
        ELSE IF ra = 0 THEN -1
        ELSE IF rc = 0 THEN 1
        ELSE CmpFrac(d, rc, b, ra)

RatCmp(x, y) == CmpFrac(x.n, x.d, y.n, y.d)

\* comparisons with NaN are False, as in IEEE 754
RatLt(x, y) == ~IsNaN(x) /\ ~IsNaN(y) /\ RatCmp(x, y) < 0
RatLe(x, y) == ~IsNaN(x) /\ ~IsNaN(y) /\ RatCmp(x, y) <= 0
RatEq(x, y) == ~IsNaN(x) /\ ~IsNaN(y) /\ x = y

RatSign(x) == IF x.n > 0 THEN 1 ELSE IF x.n < 0 THEN -1 ELSE 0

\* a + s*sqrt(q), q >= 0
Surd(a, s, q) ==
    IF IsNaN(a) \/ IsNaN(q) THEN [a |-> NaN, s |-> 0, q |-> Zero]
    ELSE IF s = 0 \/ q = Zero THEN [a |-> a, s |-> 0, q |-> Zero]
    ELSE [a |-> a, s |-> s, q |-> q]

SurdNaN == Surd(NaN, 0, Zero)
SurdOfRat(r) == Surd(r, 0, Zero)
SurdIsNaN(x) == IsNaN(x.a)

\* the sign of a + s*sqrt(q)
SurdSign(x) ==
    IF x.s = 0 THEN RatSign(x.a)
    ELSE IF RatSign(x.a) = 0 \/ RatSign(x.a) = x.s THEN x.s
    ELSE \* a and s*sqrt(q) have opposite signs: compare a^2 with q
         LET a2 == RatMul(x.a, x.a)
         IN  IF a2 = x.q THEN 0
             ELSE IF RatLt(x.q, a2) THEN RatSign(x.a) ELSE x.s

SurdSubRat(x, r) == Surd(RatSub(x.a, r), x.s, x.q)

SurdLeRat(x, r) == ~SurdIsNaN(x) /\ ~IsNaN(r) /\ SurdSign(SurdSubRat(x, r)) <= 0
SurdGtRat(x, r) == ~SurdIsNaN(x) /\ ~IsNaN(r) /\ SurdSign(SurdSubRat(x, r)) > 0
SurdLtRat(x, r) == ~SurdIsNaN(x) /\ ~IsNaN(r) /\ SurdSign(SurdSubRat(x, r)) < 0
SurdGeRat(x, r) == ~SurdIsNaN(x) /\ ~IsNaN(r) /\ SurdSign(SurdSubRat(x, r)) >= 0

\* x and y denote the same real number (both with the same radicand, or rational)
SurdSame(x, y) == ~SurdIsNaN(x) /\ ~SurdIsNaN(y) /\ x = y

-----------------------------------------------------------------------------
(* Rows and groups *)

\* a row of the survey table, as far as the estimators read it: w is _LLCPWT,
\* cs is currentsmoker, na says that currentsmoker is missing (NaN).  The
\* weights are whatever numbers the CSV holds: zero and negative ones are what
\* the guards of lines 43 and 62 (a prevalence outside [0, 1]) are there for.
Weights == (-1) .. MaxWeight
Smoker == {0, 1}
\* rows that reach the estimators: main drops the rows with a missing key column
Rows == [w : Weights, cs : Smoker, na : {FALSE}]

\* the bag b with one more copy of the row r
BagAdd(b, r) == IF r \in DOMAIN b THEN [b EXCEPT ![r] = @ + 1] ELSE (r :> 1) @@ b

RECURSIVE BagOf(_)
\* the bag of the rows listed in the sequence q
BagOf(q) == IF q = <<>> THEN <<>> ELSE BagAdd(BagOf(Tail(q)), Head(q))

RECURSIVE SumOver(_, _, _)
\* sum of f[row] over the rows of the bag g that lie in S, each counted g[row] times
SumOver(g, S, f) ==
    IF S = {} THEN 0
    ELSE LET r == CHOOSE x \in S : TRUE
         IN  g[r] * f[r] + SumOver(g, S \ {r}, f)

\* len(group)
GroupLen(g) == SumOver(g, DOMAIN g, [r \in DOMAIN g |-> 1])
\* the smokers counted without their weights
WeightedSmokers_Unweighted(g) == SumOver(g, DOMAIN g, [r \in DOMAIN g |-> r.cs])

\* (group['_LLCPWT'] * group['currentsmoker']).sum()
WeightedSmokers(g) == SumOver(g, DOMAIN g, [r \in DOMAIN g |-> r.w * r.cs])
\* group['_LLCPWT'].sum()
TotalWeight(g) == SumOver(g, DOMAIN g, [r \in DOMAIN g |-> r.w])
\* (group['_LLCPWT']**2).sum()
SumWeightsSq(g) == SumOver(g, DOMAIN g, [r \in DOMAIN g |-> r.w * r.w])

-----------------------------------------------------------------------------
(* appendix_table_2_updated.calculate_prevalence_ci *)

NotCalled == [called |-> FALSE]

\* 1.96
Z95 == Rat(49, 25)

\* max(0, x) of Python: x when x > 0, else 0
SurdMax0(x) == IF SurdGtRat(x, Zero) THEN x ELSE SurdOfRat(Zero)
\* min(1, x) of Python: x when x < 1, else 1
SurdMin1(x) == IF SurdLtRat(x, One) THEN x ELSE SurdOfRat(One)
RatMax0(x) == IF RatLt(Zero, x) THEN x ELSE Zero
RatMin1(x) == IF RatLt(x, One) THEN x ELSE One

\* the total weight not squared
KishNEff_Unsquared(total_weight, sum_weights_sq) ==
    IF sum_weights_sq = 0 THEN Zero ELSE Rat(total_weight, sum_weights_sq)

\* lines 54-59
KishNEff(total_weight, sum_weights_sq) ==
    IF sum_weights_sq = 0 THEN Zero
    ELSE Rat(total_weight * total_weight, sum_weights_sq)

\* lines 67-68, squared: margin_of_error = sqrt(MarginSq)
MarginSq(prevalence, n_eff) ==
    LET p_for_ci == RatMax0(RatMin1(prevalence))
    IN  RatMul(RatMul(Z95, Z95),
               RatDiv(RatMul(p_for_ci, RatSub(One, p_for_ci)), n_eff))

\* the lower bound not clamped at 0
CILower_NoClamp(prevalence, n_eff) == Surd(prevalence, -1, MarginSq(prevalence, n_eff))

\* line 69
CILower(prevalence, n_eff) == SurdMax0(Surd(prevalence, -1, MarginSq(prevalence, n_eff)))
\* line 70
CIUpper(prevalence, n_eff) == SurdMin1(Surd(prevalence, 1, MarginSq(prevalence, n_eff)))

\* line 62
CIUndefined(prevalence, n_eff) ==
    n_eff = Zero \/ ~(RatLe(Zero, prevalence) /\ RatLe(prevalence, One))

\* the guard of line 43 left out
ZeroTotalWeight_Never(total_weight) == FALSE

\* line 43
ZeroTotalWeight(total_weight) == total_weight = 0

\* The returned Series.  prevalence_ci_str is kept as the f-string that
\* produced it (its digits are not modelled); divisions counts the "/"
\* operations the call executed.
CalculatePrevalenceCI(g) ==
    LET weighted_smokers == WeightedSmokers(g)
        total_weight == TotalWeight(g)
    IN  IF ZeroTotalWeight(total_weight)
        THEN [called |-> TRUE, prevalence |-> NaN, n_eff |-> Zero,
              ci_lower |-> SurdNaN, ci_upper |-> SurdNaN,
              prevalence_ci_str |-> "N/A", divisions |-> 0]
        ELSE LET prevalence == Rat(weighted_smokers, total_weight)
                 sum_weights_sq == SumWeightsSq(g)
                 n_eff == KishNEff(total_weight, sum_weights_sq)
                 d2 == IF sum_weights_sq = 0 THEN 1 ELSE 2
             IN  IF CIUndefined(prevalence, n_eff)
                 THEN [called |-> TRUE, prevalence |-> prevalence, n_eff |-> n_eff,
                       ci_lower |-> SurdNaN, ci_upper |-> SurdNaN,
                       prevalence_ci_str |->
                           IF ~IsNaN(prevalence) THEN "{p}% (N/A)" ELSE "N/A",
                       divisions |-> d2]
                 ELSE [called |-> TRUE, prevalence |-> prevalence, n_eff |-> n_eff,
                       ci_lower |-> CILower(prevalence, n_eff),
                       ci_upper |-> CIUpper(prevalence, n_eff),
                       prevalence_ci_str |-> "{p}% ({lo}% - {hi}%)",
                       divisions |-> d2 + 1]

-----------------------------------------------------------------------------
(* generate_smoking_prevalence_map_v9.calculate_metrics *)

\* line 21
MetricsNEff(total_weight, sum_weights_sq) ==
    IF sum_weights_sq > 0 THEN Rat(total_weight * total_weight, sum_weights_sq)
    ELSE Zero

\* the standard error taken as sqrt(p/n_eff)
RSEOf_NoComplement(prevalence, n_eff) ==
    LET se2 == RatDiv(prevalence, n_eff)
    IN  Surd(Zero, 1, RatMul(RatDiv(se2, RatMul(prevalence, prevalence)), Rat(10000, 1)))

\* lines 26-27: rse = sqrt(p(1-p)/n_eff) / p * 100, kept as sqrt of its square
RSEOf(prevalence, n_eff) ==
    LET se2 == RatDiv(RatMul(prevalence, RatSub(One, prevalence)), n_eff)
    IN  Surd(Zero, 1, RatMul(RatDiv(se2, RatMul(prevalence, prevalence)), Rat(10000, 1)))

\* The returned Series, and with it the local n_eff of line 21 (NaN where the
\* call returns before computing it).
CalculateMetrics(g) ==
    LET n == GroupLen(g)
        weighted_smokers == WeightedSmokers(g)
        total_weight == TotalWeight(g)
    IN  IF total_weight = 0 \/ n = 0
        THEN [called |-> TRUE, prevalence |-> NaN, n |-> n, rse |-> SurdNaN,
              n_eff |-> NaN]
        ELSE LET prevalence == Rat(weighted_smokers, total_weight)
                 n_eff == MetricsNEff(total_weight, SumWeightsSq(g))
             IN  [called |-> TRUE, prevalence |-> prevalence, n |-> n,
                  rse |-> IF n_eff = Zero \/ RatLe(prevalence, Zero) \/ RatLe(One, prevalence)
                          THEN SurdNaN
                          ELSE RSEOf(prevalence, n_eff),
                  n_eff |-> n_eff]

-----------------------------------------------------------------------------
(* descriptives_final.create_descriptives.summarize: the lambda applied to *)
(* the rows g of one category                                              *)

\* the filter on currentsmoker left out
ValidSmoking_All(g) == g

\* g[g['currentsmoker'].notna()]
ValidSmoking(g) == [r \in {x \in DOMAIN g : ~x.na} |-> g[r]]

\* the fraction not scaled to a percentage
Pct_Fraction(n, d) == Rat(n, d)

\* x / y * 100
Pct(n, d) == RatMul(Rat(n, d), Rat(100, 1))

SummarizeGroup(g, total_weight_all) ==
    LET v == ValidSmoking(g)
    IN  [called |-> TRUE,
         weighted_all |-> TotalWeight(g),
         percentage |-> Pct(TotalWeight(g), total_weight_all),
         weighted_valid |-> TotalWeight(v),
         smoking_prevalence |->
             IF TotalWeight(v) > 0
             THEN Pct(WeightedSmokers(v), TotalWeight(v))
             ELSE Zero]

-----------------------------------------------------------------------------
(* descriptives_final.create_descriptives *)

\* A row of the table: the raw codes URRU and SEXVAR, the weight, the smoking
\* indicator and whether the indicator is missing.  Of the six
\* characteristics the script summarizes (all by the same summarize) the
\* model carries two.
DescWeights == 0 .. MaxWeight
DescRows ==
    { r \in [URRU : {1, 2}, SEXVAR : {1, 2}, w : DescWeights, cs : Smoker, na : BOOLEAN] :
        r.na => r.cs = 0 }

\* line 33: df['URRU'].map({0: 'Urban', 1: 'Rural'}).fillna('Missing')
URRU_cat(r) ==
    IF r.URRU = 0 THEN "Urban" ELSE IF r.URRU = 1 THEN "Rural" ELSE "Missing"
\* line 41: df['SEXVAR'].map({1: 'Male', 2: 'Female'}).fillna('Missing')
Sex_cat(r) ==
    IF r.SEXVAR = 1 THEN "Male" ELSE IF r.SEXVAR = 2 THEN "Female" ELSE "Missing"

Characteristics == {"Urban/Rural", "Sex"}
CatOf(name, r) == IF name = "Urban/Rural" THEN URRU_cat(r) ELSE Sex_cat(r)

\* lines 66-86: df.groupby(col_name).apply(...), one entry per category present
Summarize(d, name) ==
    LET cats == {CatOf(name, r) : r \in DOMAIN d}
        rowsOf(c) == [r \in {x \in DOMAIN d : CatOf(name, x) = c} |-> d[r]]
    IN  [c \in cats |-> SummarizeGroup(rowsOf(c), TotalWeight(d))]

\* lines 4-145.  Line 30 divides by len(df): an empty table raises
\* ZeroDivisionError before anything is summarized.
CreateDescriptives(d) ==
    IF GroupLen(d) = 0
    THEN [called |-> TRUE, raised |-> TRUE, table |-> <<>>]
    ELSE [called |-> TRUE, raised |-> FALSE,
          table |-> [name \in Characteristics |-> Summarize(d, name)]]

-----------------------------------------------------------------------------
(* generate_smoking_prevalence_map_v9.main *)

\* line 50
MinSampleSize == 50
MaxRSE == 30

\* the two conditions joined by "and"
IsUnreliable_Both(n, rse) == n < MinSampleSize /\ SurdGtRat(rse, Rat(MaxRSE, 1))

\* line 50: (metrics['n'] < 50) | (metrics['rse'] > 30); NaN > 30 is False
IsUnreliable(n, rse) == n < MinSampleSize \/ SurdGtRat(rse, Rat(MaxRSE, 1))

\* line 59
state_fips_map ==
    1 :> "Alabama" @@ 2 :> "Alaska" @@ 4 :> "Arizona" @@ 5 :> "Arkansas" @@
    6 :> "California" @@ 8 :> "Colorado" @@ 9 :> "Connecticut" @@ 10 :> "Delaware" @@
    11 :> "District of Columbia" @@ 12 :> "Florida" @@ 13 :> "Georgia" @@
    15 :> "Hawaii" @@ 16 :> "Idaho" @@ 17 :> "Illinois" @@ 18 :> "Indiana" @@
    19 :> "Iowa" @@ 20 :> "Kansas" @@ 21 :> "Kentucky" @@ 22 :> "Louisiana" @@
    23 :> "Maine" @@ 24 :> "Maryland" @@ 25 :> "Massachusetts" @@ 26 :> "Michigan" @@
    27 :> "Minnesota" @@ 28 :> "Mississippi" @@ 29 :> "Missouri" @@ 30 :> "Montana" @@
    31 :> "Nebraska" @@ 32 :> "Nevada" @@ 33 :> "New Hampshire" @@
    34 :> "New Jersey" @@ 35 :> "New Mexico" @@ 36 :> "New York" @@
    37 :> "North Carolina" @@ 38 :> "North Dakota" @@ 39 :> "Ohio" @@
    40 :> "Oklahoma" @@ 41 :> "Oregon" @@ 42 :> "Pennsylvania" @@
    44 :> "Rhode Island" @@ 45 :> "South Carolina" @@ 46 :> "South Dakota" @@
    47 :> "Tennessee" @@ 48 :> "Texas" @@ 49 :> "Utah" @@ 50 :> "Vermont" @@
    51 :> "Virginia" @@ 53 :> "Washington" @@ 54 :> "West Virginia" @@
    55 :> "Wisconsin" @@ 56 :> "Wyoming"

\* a row of the CSV: state code, year_centered, URRU, weight, smoking indicator
\* and whether the indicator is missing
MapRows ==
    { r \in [_STATE : {21, 72}, year_centered : {-2, 0, 4}, URRU : {0, 1},
             w : {1, 2}, cs : Smoker, na : BOOLEAN] : r.na => r.cs = 0 }

MapCounts == {1, MidCount, BigCount}

\* line 38
year_map == (-2 :> 2018) @@ (4 :> 2024)

\* lines 39-44: the rows of 2018 and 2024 with no missing value
MapKept(d) ==
    [r \in {x \in DOMAIN d : x.year_centered \in DOMAIN year_map /\ ~x.na} |-> d[r]]

MapKey(r) == <<r._STATE, year_map[r.year_centered], r.URRU>>

\* line 46: groupby(['_STATE', 'year', 'URRU']).apply(calculate_metrics)
MapGroupMetrics(d) ==
    LET kept == MapKept(d)
        keys == {MapKey(r) : r \in DOMAIN kept}
        rowsOf(k) == [r \in {x \in DOMAIN kept : MapKey(x) = k} |-> kept[r]]
    IN  [k \in keys |-> CalculateMetrics(rowsOf(k))]

\* lines 50-60: the flag, the prevalence dropped where flagged, the state name
\* (NaN where the code is not in state_fips_map)
MapFinalMetrics(m) ==
    [k \in DOMAIN m |->
        LET is_unreliable == IsUnreliable(m[k].n, m[k].rse)
        IN  [prevalence |-> IF is_unreliable THEN NaN ELSE m[k].prevalence,
             n |-> m[k].n,
             rse |-> m[k].rse,
             is_unreliable |-> is_unreliable,
             State |-> IF k[1] \in DOMAIN state_fips_map
                       THEN state_fips_map[k[1]] ELSE "NaN"]]

-----------------------------------------------------------------------------
(* generate_choropleth_geopandas_v26.get_or_category *)

\* the category names; the source writes the two outer ones with the signs
\* for "at most" and "at least"
CatAbsent == "Rural sample size: n < 50"
CatNonSig == "Non-significant"
CatBelow1 == "OR < 1.0"
CatLow == "OR <= 1.25"
CatMid == "1.25 < OR < 1.50"
CatHigh == "OR >= 1.50"

\* the bucket of 1.25 itself moved up
GetOrCategory_Strict125(row) ==
    IF ~row.present_in_results THEN CatAbsent
    ELSE IF IsNaN(row.OR) \/ IsNaN(row.p) \/ RatLe(Rat(5, 100), row.p) THEN CatNonSig
    ELSE IF RatLt(row.OR, One) THEN CatBelow1
    ELSE IF RatLt(row.OR, Rat(125, 100)) THEN CatLow
    ELSE IF RatLt(row.OR, Rat(15, 10)) THEN CatMid
    ELSE CatHigh

\* lines 23-43 (q1 and q2 are not read)
GetOrCategory(row) ==
    IF ~row.present_in_results THEN CatAbsent
    ELSE IF IsNaN(row.OR) \/ IsNaN(row.p) \/ RatLe(Rat(5, 100), row.p) THEN CatNonSig
    ELSE IF RatLt(row.OR, One) THEN CatBelow1
    ELSE IF RatLe(row.OR, Rat(125, 100)) THEN CatLow
    ELSE IF RatLt(row.OR, Rat(15, 10)) THEN CatMid
    ELSE CatHigh

\* the odds ratios (hundredths) and p-values (thousandths) of the rows tried
ORValues == {NaN} \cup {Rat(h, 100) : h \in {50, 99, 100, 101, 125, 126, 149, 150, 151, 300}}
PValues == {NaN} \cup {Rat(t, 1000) : t \in {0, 1, 49, 50, 51, 900}}
OrRows == [present_in_results : BOOLEAN, OR : ORValues, p : PValues]

-----------------------------------------------------------------------------
(* appendix_table_2_updated.main *)

NoTable == [columns |-> <<>>, rows |-> <<>>]

\* lines 266-285
state_map ==
    1 :> "Alabama" @@ 2 :> "Alaska" @@ 4 :> "Arizona" @@ 5 :> "Arkansas" @@
    6 :> "California" @@ 8 :> "Colorado" @@ 9 :> "Connecticut" @@ 10 :> "Delaware" @@
    11 :> "District of Columbia" @@ 12 :> "Florida" @@ 13 :> "Georgia" @@
    15 :> "Hawaii" @@ 16 :> "Idaho" @@ 17 :> "Illinois" @@ 18 :> "Indiana" @@
    19 :> "Iowa" @@ 20 :> "Kansas" @@ 22 :> "Louisiana" @@ 23 :> "Maine" @@
    24 :> "Maryland" @@ 25 :> "Massachusetts" @@ 26 :> "Michigan" @@
    27 :> "Minnesota" @@ 28 :> "Mississippi" @@ 29 :> "Missouri" @@ 30 :> "Montana" @@
    31 :> "Nebraska" @@ 32 :> "Nevada" @@ 33 :> "New Hampshire" @@
    34 :> "New Jersey" @@ 35 :> "New Mexico" @@ 36 :> "New York" @@
    37 :> "North Carolina" @@ 38 :> "North Dakota" @@ 39 :> "Ohio" @@
    40 :> "Oklahoma" @@ 41 :> "Oregon" @@ 44 :> "Rhode Island" @@
    45 :> "South Carolina" @@ 46 :> "South Dakota" @@ 47 :> "Tennessee" @@
    48 :> "Texas" @@ 49 :> "Utah" @@ 50 :> "Vermont" @@ 51 :> "Virginia" @@
    53 :> "Washington" @@ 54 :> "West Virginia" @@ 55 :> "Wisconsin" @@
    56 :> "Wyoming" @@ 66 :> "Guam" @@ 72 :> "Puerto Rico" @@ 78 :> "Virgin Islands"

\* a row of the CSV
TableRows ==
    [_STATE : {1, 21}, year_centered : {-2, 0, 4}, URRU : {0, 1},
     w : {0, 1}, cs : Smoker, na : {FALSE}]

YearLabels == <<"2018", "2024">>
\* lines 136-137
YearCentered(label) == IF label = "2018" THEN -2 ELSE 4

\* the f-strings f'Rural_Prevalence_{year_label}_CI' and so on
RuralCol(label) ==
    IF label = "2018" THEN "Rural_Prevalence_2018_CI" ELSE "Rural_Prevalence_2024_CI"
UrbanCol(label) ==
    IF label = "2018" THEN "Urban_Prevalence_2018_CI" ELSE "Urban_Prevalence_2024_CI"
RatioCol(label) == IF label = "2018" THEN "Ratio_2018" ELSE "Ratio_2024"

\* line 123 and line 263: the state code as text, and back as a number
AsStr(code) == [text |-> code]
ToNumeric(s) == s.text

\* lines 86-133: main returns early when the file is missing or unreadable,
\* lacks a core column, or has no non-missing weight (an empty table included)
LoadFails(f) ==
    \/ f.status # "ok"
    \/ ~f.has_core_cols
    \/ GroupLen(f.rows) = 0

\* lines 136-150
FilterYear(d, label) ==
    [r \in {x \in DOMAIN d : x.year_centered = YearCentered(label)} |-> d[r]]

\* line 169
URRUCat(r) == IF r.URRU = 0 THEN "Urban" ELSE "Rural"

\* lines 161-179: groupby(['_STATE', 'URRU_cat']).apply(calculate_prevalence_ci);
\* an empty year gives the empty frame
EstimateYear(d) ==
    LET keys == {<<AsStr(r._STATE), URRUCat(r)>> : r \in DOMAIN d}
        rowsOf(k) ==
            [r \in {x \in DOMAIN d : <<AsStr(x._STATE), URRUCat(x)>> = k} |-> d[r]]
    IN  [k \in keys |-> CalculatePrevalenceCI(rowsOf(k))]

\* line 223-224: Rural over Urban, with inf and NaN both left as NaN
RatioOf(rural, urban) == RatDiv(rural, urban)

\* lines 184-231: one row per state with the two CI strings and the ratio.
\* A cell of a state without that group is NaN; a column that no state has
\* is filled with "N/A" (strings) or NaN (prevalence).
PivotYear(label, sm) ==
    LET states == {k[1] : k \in DOMAIN sm}
        has(c) == \E k \in DOMAIN sm : k[2] = c
        prev(st, c) == IF <<st, c>> \in DOMAIN sm THEN sm[<<st, c>>].prevalence ELSE NaN
        str(st, c) ==
            IF <<st, c>> \in DOMAIN sm THEN sm[<<st, c>>].prevalence_ci_str
            ELSE IF has(c) THEN "NaN" ELSE "N/A"
    IN  [columns |-> <<RuralCol(label), UrbanCol(label), RatioCol(label)>>,
         rows |-> [st \in states |->
                     [rural_ci |-> str(st, "Rural"),
                      urban_ci |-> str(st, "Urban"),
                      ratio |-> RatioOf(prev(st, "Rural"), prev(st, "Urban"))]]]

\* lines 235-257: the outer merge on _STATE and Change_In_Ratio
MergeYears(y18, y24) ==
    LET states == DOMAIN y18.rows \cup DOMAIN y24.rows
        none == [rural_ci |-> "NaN", urban_ci |-> "NaN", ratio |-> NaN]
        a(st) == IF st \in DOMAIN y18.rows THEN y18.rows[st] ELSE none
        b(st) == IF st \in DOMAIN y24.rows THEN y24.rows[st] ELSE none
    IN  [columns |-> y18.columns \o y24.columns \o <<"Change_In_Ratio">>,
         rows |-> [st \in states |->
                     [Rural_2018 |-> a(st).rural_ci,
                      Urban_2018 |-> a(st).urban_ci,
                      Ratio_2018 |-> a(st).ratio,
                      Rural_2024 |-> b(st).rural_ci,
                      Urban_2024 |-> b(st).urban_ci,
                      Ratio_2024 |-> b(st).ratio,
                      Change_In_Ratio |-> RatSub(b(st).ratio, a(st).ratio)]]]

\* lines 291-300
column_order ==
    <<"State", "Rural_Prevalence_2018_CI", "Urban_Prevalence_2018_CI", "Ratio_2018",
      "Rural_Prevalence_2024_CI", "Urban_Prevalence_2024_CI", "Ratio_2024",
      "Change_In_Ratio">>

\* lines 259-306: STATEFIPS from the index, the state name looked up in
\* state_map (NaN where the code is not a key), STATEFIPS dropped, the columns
\* put in column_order.  The rows stay keyed by the code they came from.
NameAndOrder(t) ==
    [columns |-> column_order,
     rows |-> [st \in DOMAIN t.rows |->
                 LET STATEFIPS == ToNumeric(st)
                 IN  [State |-> IF STATEFIPS \in DOMAIN state_map
                                THEN state_map[STATEFIPS] ELSE "NaN"]
                     @@ t.rows[st]]]

-----------------------------------------------------------------------------
(* The estimators applied to one group *)

EstIdle ==
    /\ group = <<>>
    /\ ci = NotCalled
    /\ metrics = NotCalled
    /\ desc = NotCalled

DescIdle ==
    /\ df = <<>>
    /\ summary = NotCalled

MapIdle ==
    /\ mapDf = <<>>
    /\ mapPc = "idle"
    /\ mapMetrics = <<>>

OrIdle ==
    /\ orRow = [present_in_results |-> FALSE, OR |-> NaN, p |-> NaN]
    /\ category = NotCalled

TblIdle ==
    /\ tblCsv = [status |-> "not_found", has_core_cols |-> FALSE, rows |-> <<>>]
    /\ tblPc = "idle"
    /\ tblYears = <<>>
    /\ tblProcessed = <<>>
    /\ tblYearly = <<>>
    /\ tblFinal = NoTable
    /\ tblSaved = <<>>

Init ==
    /\ \E n \in 0 .. MaxRows : \E q \in [1 .. n -> Rows] : group = BagOf(q)
    /\ ci = NotCalled
    /\ metrics = NotCalled
    /\ desc = NotCalled
    /\ DescIdle
    /\ MapIdle
    /\ OrIdle
    /\ TblIdle

CallCalculatePrevalenceCI ==
    /\ ~ci.called
    /\ ci' = CalculatePrevalenceCI(group)
    /\ UNCHANGED <<group, metrics, desc, descVars, mapVars, orVars, tblVars>>

CallCalculateMetrics ==
    /\ ~metrics.called
    /\ metrics' = CalculateMetrics(group)
    /\ UNCHANGED <<group, ci, desc, descVars, mapVars, orVars, tblVars>>

\* summarize over a table whose one category is the group
CallSummarize ==
    /\ ~desc.called
    /\ desc' = SummarizeGroup(group, TotalWeight(group))
    /\ UNCHANGED <<group, ci, metrics, descVars, mapVars, orVars, tblVars>>

Next ==
    \/ CallCalculatePrevalenceCI
    \/ CallCalculateMetrics
    \/ CallSummarize

Spec == Init /\ [][Next]_vars

-----------------------------------------------------------------------------
(* The quantities the glossary defines, summed row by row over a group *)

RECURSIVE Sigma(_, _)
\* the sum of the function t over its domain
Sigma(t, S) ==
    IF S = {} THEN 0
    ELSE LET r == CHOOSE x \in S : TRUE IN t[r] + Sigma(t, S \ {r})

SumW(g) == Sigma([r \in DOMAIN g |-> g[r] * r.w], DOMAIN g)
SumWC(g) == Sigma([r \in DOMAIN g |-> g[r] * r.w * r.cs], DOMAIN g)
SumW2(g) == Sigma([r \in DOMAIN g |-> g[r] * r.w * r.w], DOMAIN g)

\* x is the fraction num/den (den # 0)
IsFraction(x, num, den) == ~IsNaN(x) /\ x.n * den = num * x.d

BothCalled == ci.called /\ metrics.called

(* C1: for every group whose weights do not sum to zero, the prevalence of
   calculate_prevalence_ci and of calculate_metrics is the sum of
   currentsmoker x weight over the sum of the weights. *)
C1_WeightedPrevalence ==
    SumW(group) # 0 =>
        /\ ci.called => IsFraction(ci.prevalence, SumWC(group), SumW(group))
        /\ metrics.called => IsFraction(metrics.prevalence, SumWC(group), SumW(group))

C1_Witness ==
    /\ BothCalled
    /\ SumW(group) # 0
    /\ SumWC(group) # 0
    /\ SumWC(group) # SumW(group)
    /\ \E r \in DOMAIN group : r.w > 1 /\ r.cs = 1

(* C2: n_eff is (sum of weights)^2 / (sum of squared weights) when neither sum
   is zero, and 0 when the sum of squared weights is zero (calculate_metrics
   then returns before using an n_eff at all). *)
C2_EffectiveSampleSize ==
    /\ ci.called =>
          /\ (SumW2(group) # 0 /\ SumW(group) # 0) =>
                 IsFraction(ci.n_eff, SumW(group) * SumW(group), SumW2(group))
          /\ SumW2(group) = 0 => ci.n_eff = Zero
    /\ metrics.called =>
          /\ (SumW2(group) # 0 /\ SumW(group) # 0) =>
                 IsFraction(metrics.n_eff, SumW(group) * SumW(group), SumW2(group))
          /\ SumW2(group) = 0 => (IsNaN(metrics.n_eff) /\ SurdIsNaN(metrics.rse))

C2_Witness ==
    /\ BothCalled
    /\ SumW(group) # 0
    /\ ci.n_eff = metrics.n_eff
    /\ ci.n_eff.d # 1
    /\ ci.n_eff # Rat(GroupLen(group), 1)

\* the glossary's prevalence and n_eff of the group (NaN where undefined)
PrevOf(g) == Rat(SumWC(g), SumW(g))
NEffOf(g) == Rat(SumW(g) * SumW(g), SumW2(g))

\* n_eff > 0 and 0 < p < 1
RSECase(g) ==
    /\ SumW(g) # 0
    /\ SumW2(g) # 0
    /\ RatLt(Zero, PrevOf(g))
    /\ RatLt(PrevOf(g), One)

\* (se / p)^2 = (1 - p) / (p * n_eff)
RelErrSq(g) == RatDiv(RatSub(One, PrevOf(g)), RatMul(PrevOf(g), NEffOf(g)))

(* C3, as claimed: the RSE of calculate_metrics is sqrt(p(1-p)/n_eff) / p when
   n_eff > 0 and 0 < p < 1, and missing in every other case. *)
C3_Original_RSEIsRatio ==
    metrics.called =>
        /\ RSECase(group) => SurdSame(metrics.rse, Surd(Zero, 1, RelErrSq(group)))
        /\ ~RSECase(group) => SurdIsNaN(metrics.rse)

(* C3, amended: the RSE of calculate_metrics is 100 x sqrt(p(1-p)/n_eff) / p
   (a percentage) when n_eff > 0 and 0 < p < 1, and missing in every other
   case. *)
C3_RSEIsPercentRatio ==
    metrics.called =>
        /\ RSECase(group) =>
              SurdSame(metrics.rse,
                       Surd(Zero, 1, RatMul(Rat(100 * 100, 1), RelErrSq(group))))
        /\ ~RSECase(group) => SurdIsNaN(metrics.rse)

C3_Witness ==
    /\ metrics.called
    /\ RSECase(group)
    /\ ~SurdIsNaN(metrics.rse)
    /\ SurdGtRat(metrics.rse, Rat(30, 1))

\* 1.96^2 * p(1-p)/n_eff
MarginSqOf(g) ==
    RatDiv(RatMul(Rat(196 * 196, 100 * 100), RatMul(PrevOf(g), RatSub(One, PrevOf(g)))),
           NEffOf(g))

\* n_eff # 0 and 0 <= prevalence <= 1, on what the call returned
CICase == ci.n_eff # Zero /\ RatLe(Zero, ci.prevalence) /\ RatLe(ci.prevalence, One)

CIDefined == ~SurdIsNaN(ci.ci_lower) /\ ~SurdIsNaN(ci.ci_upper)
CIMissing == SurdIsNaN(ci.ci_lower) /\ SurdIsNaN(ci.ci_upper)

\* 0 <= ci_lower <= prevalence <= ci_upper <= 1 and the two bounds are the
\* clamped prevalence -/+ 1.96 sqrt(p(1-p)/n_eff)
CIBoundsRight ==
    LET lo == Surd(PrevOf(group), -1, MarginSqOf(group))
        hi == Surd(PrevOf(group), 1, MarginSqOf(group))
    IN  /\ SurdGeRat(ci.ci_lower, Zero)
        /\ SurdLeRat(ci.ci_lower, ci.prevalence)
        /\ SurdGeRat(ci.ci_upper, ci.prevalence)
        /\ SurdLeRat(ci.ci_upper, One)
        /\ ci.ci_lower = IF SurdGtRat(lo, Zero) THEN lo ELSE SurdOfRat(Zero)
        /\ ci.ci_upper = IF SurdLtRat(hi, One) THEN hi ELSE SurdOfRat(One)

\* of the three f-strings only this one ends in "(N/A)"
EndsInParenNA(str) == str = "{p}% (N/A)"

(* C4, as claimed: a defined interval satisfies 0 <= ci_lower <= prevalence <=
   ci_upper <= 1 with the clamped bounds; it is defined exactly when n_eff # 0
   and 0 <= prevalence <= 1; otherwise both bounds are missing and the string
   ends in "(N/A)". *)
C4_Original_CIOrParenNA ==
    ci.called =>
        /\ CIDefined <=> CICase
        /\ CIDefined => CIBoundsRight
        /\ ~CIDefined => (CIMissing /\ EndsInParenNA(ci.prevalence_ci_str))

(* C4, amended: as claimed, except that the string of an undefined interval
   ends in "(N/A)" only when the total weight is not zero; for an empty group
   or a zero total weight it is the bare "N/A". *)
C4_CIOrNA ==
    ci.called =>
        /\ CIDefined <=> CICase
        /\ CIDefined => CIBoundsRight
        /\ ~CIDefined =>
              /\ CIMissing
              /\ SumW(group) # 0 => EndsInParenNA(ci.prevalence_ci_str)
              /\ SumW(group) = 0 => ci.prevalence_ci_str = "N/A"

\* an interval with neither bound clamped, one clamped below, and one undefined
\* with a prevalence outside [0, 1] are all reached
C4_Witness ==
    /\ ci.called
    /\ CIDefined
    /\ ci.ci_lower.s = -1
    /\ ci.ci_upper.s = 1
    /\ ci.prevalence_ci_str = "{p}% ({lo}% - {hi}%)"

C4_WitnessUndefined ==
    /\ ci.called
    /\ ~CIDefined
    /\ SumW(group) # 0
    /\ RatLt(One, ci.prevalence)

(* C5: for a group that is empty or whose weights sum to zero,
   calculate_prevalence_ci divides nothing and returns prevalence missing,
   n_eff = 0, both bounds missing and the string 'N/A'. *)
C5_ZeroWeightGroup ==
    (ci.called /\ SumW(group) = 0) =>
        /\ IsNaN(ci.prevalence)
        /\ ci.n_eff = Zero
        /\ CIMissing
        /\ ci.prevalence_ci_str = "N/A"
        /\ ci.divisions = 0

\* a non-empty group whose weights cancel
C5_Witness ==
    /\ ci.called
    /\ SumW(group) = 0
    /\ SumW2(group) # 0
    /\ SumWC(group) # 0

AllCalled == ci.called /\ metrics.called /\ desc.called

(* C10, as claimed: for every group the three functions yield the same
   prevalence, the descriptives value being 100 x it, also when the total
   weight is zero. *)
C10_Original_SamePrevalence ==
    AllCalled =>
        /\ ci.prevalence = metrics.prevalence
        /\ desc.smoking_prevalence = RatMul(Rat(100, 1), ci.prevalence)

(* C10, amended: calculate_prevalence_ci and calculate_metrics yield the same
   prevalence for every group, and summarize yields 100 x that prevalence for
   every group whose total weight is positive; for a total weight of zero (or
   below) summarize yields 0 while the other two yield missing (or the
   quotient). *)
C10_SamePrevalence ==
    AllCalled =>
        /\ ci.prevalence = metrics.prevalence
        /\ SumW(group) > 0 =>
              /\ ~IsNaN(ci.prevalence)
              /\ desc.smoking_prevalence = RatMul(Rat(100, 1), ci.prevalence)
        /\ SumW(group) <= 0 => desc.smoking_prevalence = Zero

C10_Witness ==
    /\ AllCalled
    /\ SumW(group) > 0
    /\ RatLt(Zero, ci.prevalence)
    /\ RatLt(ci.prevalence, One)
    /\ desc.smoking_prevalence # Zero

-----------------------------------------------------------------------------
(* descriptives_final: create_descriptives applied to a table *)

InitDesc ==
    /\ \E n \in 0 .. MaxDescRows : \E q \in [1 .. n -> DescRows] : df = BagOf(q)
    /\ summary = NotCalled
    /\ EstIdle
    /\ MapIdle
    /\ OrIdle
    /\ TblIdle

CallCreateDescriptives ==
    /\ ~summary.called
    /\ summary' = CreateDescriptives(df)
    /\ UNCHANGED <<df, estVars, mapVars, orVars, tblVars>>

NextDesc == CallCreateDescriptives

SpecDesc == InitDesc /\ [][NextDesc]_vars

\* the rows of category c of characteristic name whose smoking status is known
KnownRows(d, name, c) ==
    [r \in {x \in DOMAIN d : CatOf(name, x) = c /\ ~x.na} |-> d[r]]

BagRemove(b, r) ==
    IF b[r] > 1 THEN [b EXCEPT ![r] = @ - 1]
    ELSE [x \in DOMAIN b \ {r} |-> b[x]]

MissingRows == {r \in DescRows : r.na}

\* the tables got from d by adding, removing or re-weighting one row whose
\* smoking status is missing
Perturbed(d) ==
    {BagAdd(d, m) : m \in MissingRows}
    \cup {BagRemove(d, m) : m \in DOMAIN d \cap MissingRows}
    \cup {BagAdd(BagRemove(d, m), [m EXCEPT !.w = v]) :
             m \in DOMAIN d \cap MissingRows, v \in DescWeights}

\* no missing-smoking row changes the prevalence of a category that is in
\* the summary before and after
MissingRowsIgnored ==
    \A d2 \in Perturbed(df) :
        LET s2 == CreateDescriptives(d2)
        IN  ~s2.raised =>
              \A name \in Characteristics :
                \A c \in DOMAIN summary.table[name] \cap DOMAIN s2.table[name] :
                    s2.table[name][c].smoking_prevalence =
                        summary.table[name][c].smoking_prevalence

(* C6, as claimed: for every category of every characteristic the reported
   'Smoking prevalence' is 100 x sum(weight x currentsmoker) / sum(weight)
   over the category's rows with non-missing currentsmoker, and no
   missing-smoking row changes a category's prevalence. *)
C6_Original_MissingExcluded ==
    (summary.called /\ ~summary.raised) =>
        /\ \A name \in Characteristics :
              \A c \in DOMAIN summary.table[name] :
                  LET k == KnownRows(df, name, c)
                  IN  summary.table[name][c].smoking_prevalence =
                          RatMul(Rat(100, 1), Rat(SumWC(k), SumW(k)))
        /\ MissingRowsIgnored

(* C6, amended: the reported value is that quotient when the weights of the
   category's rows with non-missing currentsmoker sum to more than zero, and
   0 when they do not (a category with no such row, or with zero weights);
   no missing-smoking row changes the prevalence of a category. *)
C6_MissingExcluded ==
    (summary.called /\ ~summary.raised) =>
        /\ \A name \in Characteristics :
              \A c \in DOMAIN summary.table[name] :
                  LET k == KnownRows(df, name, c)
                  IN  summary.table[name][c].smoking_prevalence =
                          IF SumW(k) > 0
                          THEN RatMul(Rat(100, 1), Rat(SumWC(k), SumW(k)))
                          ELSE Zero
        /\ MissingRowsIgnored

\* a category with a weighted missing-smoking row next to a smoker and a
\* non-smoker
C6_Witness ==
    /\ summary.called
    /\ ~summary.raised
    /\ \E m \in DOMAIN df : m.na /\ m.w > 0
    /\ \E c \in DOMAIN summary.table["Sex"] :
          /\ RatLt(Zero, summary.table["Sex"][c].smoking_prevalence)
          /\ RatLt(summary.table["Sex"][c].smoking_prevalence, Rat(100, 1))
          /\ summary.table["Sex"][c].weighted_valid < summary.table["Sex"][c].weighted_all

-----------------------------------------------------------------------------
(* generate_smoking_prevalence_map_v9.main, up to the join with the map *)

\* the CSV holds at most two different rows, each 1, MidCount or BigCount times
InitMap ==
    /\ \E n \in 0 .. 2 : \E q \in [1 .. n -> MapRows] : \E c \in [1 .. n -> MapCounts] :
          /\ \A i \in 1 .. n : \A j \in 1 .. n : i < j => q[i] # q[j]
          /\ mapDf = [r \in {q[i] : i \in 1 .. n} |->
                         c[CHOOSE i \in 1 .. n : q[i] = r]]
    /\ mapPc = "loaded"
    /\ mapMetrics = <<>>
    /\ EstIdle
    /\ DescIdle
    /\ OrIdle
    /\ TblIdle

\* lines 37-46
MapCalculateMetrics ==
    /\ mapPc = "loaded"
    /\ mapMetrics' = MapGroupMetrics(mapDf)
    /\ mapPc' = "metrics"
    /\ UNCHANGED <<mapDf, estVars, descVars, orVars, tblVars>>

\* lines 48-60
MapFlagUnreliable ==
    /\ mapPc = "metrics"
    /\ mapMetrics' = MapFinalMetrics(mapMetrics)
    /\ mapPc' = "flagged"
    /\ UNCHANGED <<mapDf, estVars, descVars, orVars, tblVars>>

NextMap ==
    \/ MapCalculateMetrics
    \/ MapFlagUnreliable

SpecMap == InitMap /\ [][NextMap]_vars

\* the rows of the CSV behind the estimate of key k
EstimateRows(k) ==
    [r \in {x \in DOMAIN mapDf :
               /\ ~x.na
               /\ x._STATE = k[1]
               /\ x.URRU = k[3]
               /\ \/ (k[2] = 2018 /\ x.year_centered = -2)
                  \/ (k[2] = 2024 /\ x.year_centered = 4)} |-> mapDf[r]]

\* the unweighted sample size
SampleSize(g) == Sigma([r \in DOMAIN g |-> g[r]], DOMAIN g)

\* RSE > 30%, that is (100 se/p)^2 > 30^2
RSEAbove30(g) == RSECase(g) /\ RatLt(Rat(9, 100), RelErrSq(g))
\* RSE <= 30%
RSEWithin30(g) == RSECase(g) /\ RatLe(RelErrSq(g), Rat(9, 100))

(* C7: every (state, year, urban/rural) estimate with a sample size below 50
   or an RSE above 30% has its prevalence set to missing before the join, and
   every estimate with n >= 50 and RSE <= 30% keeps its computed prevalence. *)
C7_UnreliableSuppressed ==
    mapPc = "flagged" =>
        \A k \in DOMAIN mapMetrics :
            LET g == EstimateRows(k)
            IN  /\ (SampleSize(g) < 50 \/ RSEAbove30(g)) =>
                      IsNaN(mapMetrics[k].prevalence)
                /\ (SampleSize(g) >= 50 /\ RSEWithin30(g)) =>
                      /\ ~IsNaN(mapMetrics[k].prevalence)
                      /\ mapMetrics[k].prevalence = PrevOf(g)

\* one estimate kept, one dropped for its RSE alone
C7_Witness ==
    /\ mapPc = "flagged"
    /\ \E k \in DOMAIN mapMetrics :
          /\ SampleSize(EstimateRows(k)) >= 50
          /\ RSEAbove30(EstimateRows(k))
          /\ IsNaN(mapMetrics[k].prevalence)

C7_WitnessKept ==
    /\ mapPc = "flagged"
    /\ \E k \in DOMAIN mapMetrics :
          /\ SampleSize(EstimateRows(k)) >= 50
          /\ RSEWithin30(EstimateRows(k))
          /\ ~IsNaN(mapMetrics[k].prevalence)

-----------------------------------------------------------------------------
(* generate_choropleth_geopandas_v26: get_or_category applied to a row *)

InitOR ==
    /\ orRow \in OrRows
    /\ category = NotCalled
    /\ EstIdle
    /\ DescIdle
    /\ MapIdle
    /\ TblIdle

CallGetOrCategory ==
    /\ ~category.called
    /\ category' = [called |-> TRUE, value |-> GetOrCategory(orRow)]
    /\ UNCHANGED <<orRow, estVars, descVars, mapVars, tblVars>>

NextOR == CallGetOrCategory

SpecOR == InitOR /\ [][NextOR]_vars

\* the conditions of the rules, on the numerators and denominators
Significant(row) ==
    /\ ~IsNaN(row.OR)
    /\ ~IsNaN(row.p)
    /\ 100 * row.p.n < 5 * row.p.d

(* C8: get_or_category gives every state exactly one of six categories:
   absent from the results -> 'Rural sample size: n < 50'; present with OR or
   p missing or p >= 0.05 -> 'Non-significant'; significant with OR < 1.0 ->
   'OR < 1.0'; otherwise 1.0 <= OR <= 1.25, 1.25 < OR < 1.5 and OR >= 1.5 give
   the three OR buckets. *)
C8_OrCategoryRules ==
    category.called =>
        LET r == orRow
            c == category.value
            sig == r.present_in_results /\ Significant(r)
        IN  /\ c \in {CatAbsent, CatNonSig, CatBelow1, CatLow, CatMid, CatHigh}
            /\ c = CatAbsent <=> ~r.present_in_results
            /\ c = CatNonSig <=> (r.present_in_results /\ ~Significant(r))
            /\ c = CatBelow1 <=> (sig /\ r.OR.n < r.OR.d)
            /\ c = CatLow <=> (sig /\ r.OR.n >= r.OR.d /\ 100 * r.OR.n <= 125 * r.OR.d)
            /\ c = CatMid <=> (sig /\ 100 * r.OR.n > 125 * r.OR.d /\ 10 * r.OR.n < 15 * r.OR.d)
            /\ c = CatHigh <=> (sig /\ 10 * r.OR.n >= 15 * r.OR.d)

\* a significant odds ratio of exactly 1.25
C8_Witness ==
    /\ category.called
    /\ orRow.present_in_results
    /\ Significant(orRow)
    /\ orRow.OR = Rat(125, 100)
    /\ category.value = CatLow

-----------------------------------------------------------------------------
(* appendix_table_2_updated.main *)

\* the file main finds: none, an unreadable one, one without the core columns,
\* or a table of rows
InitTable ==
    /\ \/ \E st \in {"not_found", "unreadable", "ok"} :
             tblCsv = [status |-> st, has_core_cols |-> FALSE, rows |-> <<>>]
       \/ \E n \in 0 .. MaxTableRows : \E q \in [1 .. n -> TableRows] :
             tblCsv = [status |-> "ok", has_core_cols |-> TRUE, rows |-> BagOf(q)]
    /\ tblPc = "start"
    /\ tblYears = <<>>
    /\ tblProcessed = <<>>
    /\ tblYearly = <<>>
    /\ tblFinal = NoTable
    /\ tblSaved = <<>>
    /\ EstIdle
    /\ DescIdle
    /\ MapIdle
    /\ OrIdle

otherVars == <<estVars, descVars, mapVars, orVars>>

\* lines 86-133
TblLoad ==
    /\ tblPc = "start"
    /\ tblPc' = IF LoadFails(tblCsv) THEN "returned" ELSE "loaded"
    /\ UNCHANGED <<tblCsv, tblYears, tblProcessed, tblYearly, tblFinal, tblSaved, otherVars>>

\* lines 135-155
TblFilter ==
    /\ tblPc = "loaded"
    /\ tblYears' = [i \in 1 .. Len(YearLabels) |-> FilterYear(tblCsv.rows, YearLabels[i])]
    /\ tblPc' = "filtered"
    /\ UNCHANGED <<tblCsv, tblProcessed, tblYearly, tblFinal, tblSaved, otherVars>>

\* lines 160-179, one pass of the loop
TblEstimate ==
    /\ tblPc = "filtered"
    /\ LET i == Len(tblProcessed) + 1
       IN  /\ tblProcessed' = Append(tblProcessed, EstimateYear(tblYears[i]))
           /\ tblPc' = IF i = Len(YearLabels) THEN "estimated" ELSE "filtered"
    /\ UNCHANGED <<tblCsv, tblYears, tblYearly, tblFinal, tblSaved, otherVars>>

\* lines 183-232, one pass of the loop
TblPivot ==
    /\ tblPc = "estimated"
    /\ LET i == Len(tblYearly) + 1
       IN  /\ tblYearly' = Append(tblYearly, PivotYear(YearLabels[i], tblProcessed[i]))
           /\ tblPc' = IF i = Len(YearLabels) THEN "pivoted" ELSE "estimated"
    /\ UNCHANGED <<tblCsv, tblYears, tblProcessed, tblFinal, tblSaved, otherVars>>

\* lines 234-257
TblMerge ==
    /\ tblPc = "pivoted"
    /\ tblFinal' = MergeYears(tblYearly[1], tblYearly[2])
    /\ tblPc' = "merged"
    /\ UNCHANGED <<tblCsv, tblYears, tblProcessed, tblYearly, tblSaved, otherVars>>

\* lines 259-306
TblNameAndOrder ==
    /\ tblPc = "merged"
    /\ tblFinal' = NameAndOrder(tblFinal)
    /\ tblPc' = "ordered"
    /\ UNCHANGED <<tblCsv, tblYears, tblProcessed, tblYearly, tblSaved, otherVars>>

\* a main that would write the file again after it has been written
TblSave_Repeat ==
    /\ tblPc \in {"ordered", "saved"}
    /\ \E written \in BOOLEAN :
          /\ tblSaved' = IF written THEN Append(tblSaved, tblFinal) ELSE tblSaved
          /\ tblPc' = IF written THEN "saved" ELSE "save_failed"
    /\ UNCHANGED <<tblCsv, tblYears, tblProcessed, tblYearly, tblFinal, otherVars>>

\* lines 311-317: to_csv writes the table, or raises and is reported
TblSave ==
    /\ tblPc = "ordered"
    /\ \E written \in BOOLEAN :
          /\ tblSaved' = IF written THEN Append(tblSaved, tblFinal) ELSE tblSaved
          /\ tblPc' = IF written THEN "saved" ELSE "save_failed"
    /\ UNCHANGED <<tblCsv, tblYears, tblProcessed, tblYearly, tblFinal, otherVars>>

NextTable ==
    \/ TblLoad
    \/ TblFilter
    \/ TblEstimate
    \/ TblPivot
    \/ TblMerge
    \/ TblNameAndOrder
    \/ TblSave

SpecTable == InitTable /\ [][NextTable]_vars

Range(q) == {q[i] : i \in 1 .. Len(q)}

\* the columns the module docstring lists (lines 11-19)
DocstringColumns ==
    {"STATEFIPS", "Rural_Prevalence_2018_CI", "Urban_Prevalence_2018_CI", "Ratio_2018",
     "Rural_Prevalence_2023_CI", "Urban_Prevalence_2023_CI", "Ratio_2023",
     "Change_In_Ratio"}

(* C9: the table main saves has the columns STATEFIPS,
   Rural_Prevalence_2018_CI, Urban_Prevalence_2018_CI, Ratio_2018,
   Rural_Prevalence_2023_CI, Urban_Prevalence_2023_CI, Ratio_2023 and
   Change_In_Ratio. *)
C9_DocstringColumnsSaved ==
    \A i \in 1 .. Len(tblSaved) : DocstringColumns \subseteq Range(tblSaved[i].columns)


\* the place of a control point in load, group, estimate, pivot, merge, emit
StageRank(pc) ==
    CASE pc = "start" -> 0
      [] pc = "loaded" -> 1
      [] pc = "filtered" -> 2
      [] pc = "estimated" -> 3
      [] pc = "pivoted" -> 4
      [] pc = "merged" -> 5
      [] pc = "ordered" -> 6
      [] pc \in {"saved", "save_failed", "returned"} -> 7

NumYears == Len(YearLabels)

\* what has been produced agrees with how far the run has come
C11_StageInv ==
    /\ Len(tblSaved) <= 1
    /\ tblYears # <<>> <=> StageRank(tblPc) \in 2 .. 6 \/ tblPc \in {"saved", "save_failed"}
    /\ Len(tblProcessed) > 0 => tblYears # <<>>
    /\ Len(tblProcessed) <= NumYears
    /\ StageRank(tblPc) >= 3 /\ tblPc # "returned" <=> Len(tblProcessed) = NumYears
    /\ Len(tblYearly) > 0 => Len(tblProcessed) = NumYears
    /\ Len(tblYearly) <= NumYears
    /\ StageRank(tblPc) >= 4 /\ tblPc # "returned" <=> Len(tblYearly) = NumYears
    /\ tblFinal # NoTable => Len(tblYearly) = NumYears /\ StageRank(tblPc) >= 5
    /\ tblSaved # <<>> =>
          /\ tblPc = "saved"
          /\ Len(tblProcessed) = NumYears
          /\ Len(tblYearly) = NumYears
          /\ \A i \in 1 .. NumYears :
                tblYearly[i] = PivotYear(YearLabels[i], EstimateYear(tblYears[i]))
          /\ tblSaved[1] = tblFinal
          /\ \A st \in DOMAIN tblFinal.rows :
                st \in DOMAIN tblYearly[1].rows \cup DOMAIN tblYearly[2].rows

\* a step never goes back to an earlier stage and never undoes a result
C11_StageStep ==
    /\ StageRank(tblPc') >= StageRank(tblPc)
    /\ Len(tblProcessed') \in {Len(tblProcessed), Len(tblProcessed) + 1}
    /\ Len(tblYearly') \in {Len(tblYearly), Len(tblYearly) + 1}
    /\ Len(tblSaved') \in {Len(tblSaved), Len(tblSaved) + 1}
    /\ Len(tblSaved') > Len(tblSaved) => tblPc = "ordered"
    /\ Len(tblYearly') > Len(tblYearly) => tblPc = "estimated"
    /\ Len(tblProcessed') > Len(tblProcessed) => tblPc = "filtered"
    /\ tblYears' # tblYears => tblPc = "loaded"
    /\ tblCsv' = tblCsv

(* C11: a run of main goes through load, group, estimate, pivot, merge and
   emit in that order only: the CSV is written at most once, only after both
   years have been estimated, pivoted and merged, and no stage is entered
   again once a later one has started. *)
C11_StagesInOrder == []C11_StageInv /\ [][C11_StageStep]_vars

\* the table of a run with rows in both years has been written
C11_Witness ==
    /\ tblPc = "saved"
    /\ Len(tblSaved) = 1
    /\ DOMAIN tblProcessed[1] # {}
    /\ DOMAIN tblProcessed[2] # {}
    /\ DOMAIN tblSaved[1].rows # {}


\* the FIPS codes of the 50 states and the District of Columbia, with their
\* names, as generate_smoking_prevalence_map_v9 lists them
StatesAndDC == DOMAIN state_fips_map

(* C12: every row of the saved appendix table whose code is the FIPS code of
   one of the 50 states or of the District of Columbia carries that state's
   name in State; no such row is written with a missing State. *)
C12_EveryStateNamed ==
    \A i \in 1 .. Len(tblSaved) :
        \A st \in DOMAIN tblSaved[i].rows :
            ToNumeric(st) \in StatesAndDC =>
                /\ tblSaved[i].rows[st].State # "NaN"
                /\ tblSaved[i].rows[st].State = state_fips_map[ToNumeric(st)]

====
